---- MODULE Spec2Model ----
(***************************************************************************)
(* A model of Grafton_Week10.py: the Investor class (portfolio registry,   *)
(* valuation, timestamp aggregation, projection for the chart) and the     *)
(* main script that drives it from the portfolio CSV and the price JSON.   *)
(*                                                                         *)
(* Python values are tagged records so that a float, a datetime, None and  *)
(* an exception are never equal to one another.  A dict is a function.     *)
(***************************************************************************)
EXTENDS Integers, Sequences, FiniteSets, TLC

VARIABLES
    stocks,            \* Investor.stocks: symbol -> Stock object
    stock_volumes,     \* Investor.stock_volumes: symbol -> float
    symbol_dict,       \* Investor.symbol_dict: symbol -> None (the row template)
    stock_timestamps,  \* Investor.stock_timestamps: date -> (symbol -> float or None)
    graph,             \* the dict returned by the last prep_for_graph call
    pc,                \* position of the main script ("api": the class used on its own)
    stock_obj,         \* main's local variable stock_obj (Unbound before its first assignment)
    db_rows,           \* number of rows committed to the stock_dates table
    csv_read,          \* history: number of portfolio rows read so far
    expected,          \* history: symbol -> shares of the last well-formed row read for it
    latest,            \* history: <<date, symbol>> -> close of the last record ingested for a held symbol (and the one before)
    last,              \* history: the last call made and how it ended
    nops               \* number of calls made on the Investor used on its own

vars == <<stocks, stock_volumes, symbol_dict, stock_timestamps, graph, pc,
          stock_obj, db_rows, csv_read, expected, latest, last, nops>>

---------------------------------------------------------------------------
(* Bounds *)

MaxOps == 8
MaxCsvRows == 2
MaxJsonRows == 3

---------------------------------------------------------------------------
(* Python values *)

None == [type |-> "NoneType"]

Float(n) == [type |-> "float", val |-> n]

Datetime(n) == [type |-> "datetime", ord |-> n]

Raised(name) == [type |-> "exception", name |-> name]

IsRaised(x) == x.type = "exception"

Unbound == [type |-> "unbound"]

EmptyDict == [k \in {} |-> None]

DictSet(d, k, v) == [x \in (DOMAIN d) \cup {k} |-> IF x = k THEN v ELSE d[x]]

---------------------------------------------------------------------------
(* Inputs: the texts that appear in the two files *)

StockSymbols == {"AAPL", "dates"}

PriceSymbols == {"AAPL", "dates", "GOOG"}

ShareTexts == {"2", "0", "-1", "abc"}

CloseTexts == {"1", "3", "x"}

DateText(dd, mon, yy) == [dd |-> dd, mon |-> mon, yy |-> yy]

DateTexts ==
    { DateText(2, "Jan", 21), DateText(1, "Feb", 21), DateText(1, "Jan", 99),
      DateText(30, "Feb", 21), DateText(1, "Foo", 21) }

(* The texts given to the Investor used on its own *)
ApiShareTexts == {"2", "abc"}

ApiCloseTexts == {"3", "x"}

ApiDateTexts ==
    { DateText(2, "Jan", 21), DateText(1, "Jan", 99), DateText(30, "Feb", 21) }

(* float(): the number a text denotes, or ValueError *)
float(text) ==
    CASE text = "0"  -> Float(0)
      [] text = "1"  -> Float(1)
      [] text = "2"  -> Float(2)
      [] text = "3"  -> Float(3)
      [] text = "-1" -> Float(-1)
      [] OTHER       -> Raised("ValueError")

MonthNumber(mon) ==
    CASE mon = "Jan" -> 1 [] mon = "Feb" -> 2 [] mon = "Mar" -> 3
      [] mon = "Apr" -> 4 [] mon = "May" -> 5 [] mon = "Jun" -> 6
      [] mon = "Jul" -> 7 [] mon = "Aug" -> 8 [] mon = "Sep" -> 9
      [] mon = "Oct" -> 10 [] mon = "Nov" -> 11 [] mon = "Dec" -> 12
      [] OTHER -> 0

(* %y: 69..99 are 1969..1999, 0..68 are 2000..2068 *)
FullYear(yy) == IF yy >= 69 THEN 1900 + yy ELSE 2000 + yy

DaysInMonth(m, y) ==
    IF m = 2 THEN (IF y % 4 = 0 THEN 29 ELSE 28)
    ELSE IF m \in {4, 6, 9, 11} THEN 30 ELSE 31

(* datetime.strptime(date, "%d-%b-%y"); a datetime is kept as the number   *)
(* year*10000 + month*100 + day, whose order is the order of datetimes.    *)
strptime(text) ==
    LET m == MonthNumber(text.mon)
        y == FullYear(text.yy)
    IN  IF m = 0 \/ text.dd < 1 \/ text.dd > DaysInMonth(m, y)
        THEN Raised("ValueError")
        ELSE Datetime(y * 10000 + m * 100 + text.dd)

---------------------------------------------------------------------------
(* class Stock_Timestamp, class Stock *)

Stock_Timestamp_init(symbol, date, close_price) ==
    LET d == strptime(date)
        c == float(close_price)
    IN  IF IsRaised(d) THEN d
        ELSE IF IsRaised(c) THEN c
        ELSE [type |-> "Stock_Timestamp", symbol |-> symbol, date |-> d.ord,
              close_price |-> c]

Stock_init(symbol, number_of_shares) ==
    LET n == float(number_of_shares)
    IN  IF IsRaised(n) THEN n
        ELSE [type |-> "Stock", symbol |-> symbol, number_of_shares |-> n]

---------------------------------------------------------------------------
(* class Investor *)

add_stock(stks, stock) == DictSet(stks, stock.symbol, stock)

(* set_stock_metadata: returns the two dicts it updates *)
set_stock_metadata_NoVolumes(stks, volumes, symdict) ==
    [stock_volumes |-> volumes,
     symbol_dict   |-> [k \in (DOMAIN symdict) \cup (DOMAIN stks) |-> None]]

set_stock_metadata(stks, volumes, symdict) ==
    [stock_volumes |-> [k \in (DOMAIN volumes) \cup (DOMAIN stks) |->
                           IF k \in DOMAIN stks THEN stks[k].number_of_shares
                           ELSE volumes[k]],
     symbol_dict   |-> [k \in (DOMAIN symdict) \cup (DOMAIN stks) |-> None]]

calculate_value_Sum(volumes, symbol, close) ==
    IF symbol \notin DOMAIN volumes THEN Raised("KeyError")
    ELSE Float(volumes[symbol].val + close.val)

calculate_value(volumes, symbol, close) ==
    IF symbol \notin DOMAIN volumes THEN Raised("KeyError")
    ELSE Float(volumes[symbol].val * close.val)

(* add_stock_timestamp: the exception raised ("" when none) and the table  *)
(* after the call                                                          *)
Returns(table) == [raised |-> "", table |-> table]

Raises(name, table) == [raised |-> name, table |-> table]

add_stock_timestamp_RowFirst(symdict, volumes, table, timestamp) ==
    LET withRow == IF timestamp.date \notin DOMAIN table
                   THEN DictSet(table, timestamp.date, symdict)
                   ELSE table
    IN  IF timestamp.symbol \in DOMAIN symdict
        THEN LET value == calculate_value(volumes, timestamp.symbol, timestamp.close_price)
             IN  IF IsRaised(value) THEN Raises(value.name, table)
                 ELSE Returns(DictSet(withRow, timestamp.date,
                              DictSet(withRow[timestamp.date], timestamp.symbol, value)))
        ELSE Returns(withRow)

add_stock_timestamp_NoTemplate(symdict, volumes, table, timestamp) ==
    IF timestamp.symbol \in DOMAIN symdict
    THEN LET value == calculate_value(volumes, timestamp.symbol, timestamp.close_price)
             row   == IF timestamp.date \notin DOMAIN table
                      THEN EmptyDict
                      ELSE table[timestamp.date]
         IN  IF IsRaised(value) THEN Raises(value.name, table)
             ELSE Returns(DictSet(table, timestamp.date,
                                  DictSet(row, timestamp.symbol, value)))
    ELSE Returns(table)

add_stock_timestamp_Replace(symdict, volumes, table, timestamp) ==
    IF timestamp.symbol \in DOMAIN symdict
    THEN LET value == calculate_value(volumes, timestamp.symbol, timestamp.close_price)
         IN  IF IsRaised(value) THEN Raises(value.name, table)
             ELSE Returns(DictSet(EmptyDict, timestamp.date,
                                  DictSet(symdict, timestamp.symbol, value)))
    ELSE Returns(table)

add_stock_timestamp(symdict, volumes, table, timestamp) ==
    IF timestamp.symbol \in DOMAIN symdict
    THEN LET value == calculate_value(volumes, timestamp.symbol, timestamp.close_price)
             row   == IF timestamp.date \notin DOMAIN table
                      THEN symdict
                      ELSE table[timestamp.date]
         IN  IF IsRaised(value) THEN Raises(value.name, table)
             ELSE Returns(DictSet(table, timestamp.date,
                                  DictSet(row, timestamp.symbol, value)))
    ELSE Returns(table)

(* sorted(): ascending sequence of a finite set of numbers *)
RECURSIVE sorted(_)
sorted(S) ==
    IF S = {} THEN <<>>
    ELSE LET m == CHOOSE x \in S : \A y \in S : x <= y
         IN  <<m>> \o sorted(S \ {m})

(* One pass of the loop body of prep_for_graph for one date: the date is   *)
(* appended to graph_dict['dates'], then each item of the row is appended  *)
(* to the list stored under its key.                                       *)
AppendRow(graph_dict, date, row) ==
    [k \in DOMAIN graph_dict |->
        graph_dict[k]
        \o (IF k = "dates" THEN <<Datetime(date)>> ELSE <<>>)
        \o (IF k \in DOMAIN row THEN <<row[k]>> ELSE <<>>)]

RECURSIVE FillGraph(_, _, _)
FillGraph(graph_dict, dates, table) ==
    IF dates = <<>> THEN [raised |-> "", graph_dict |-> graph_dict]
    ELSE IF ~ (DOMAIN table[Head(dates)] \subseteq DOMAIN graph_dict)
    THEN [raised |-> "KeyError", graph_dict |-> graph_dict]
    ELSE FillGraph(AppendRow(graph_dict, Head(dates), table[Head(dates)]),
                   Tail(dates), table)

(* prep_for_graph: the exception raised ("" when none) and graph_dict *)
prep_for_graph(symdict, table) ==
    FillGraph([k \in {"dates"} \cup (DOMAIN symdict) |-> <<>>],
              sorted(DOMAIN table), table)

---------------------------------------------------------------------------
(* History *)

(* A call: the operation, the symbol and the date (0 when none was made)   *)
(* it was given, the file row it came from, the exception it ended with ("" for  *)
(* none, "caught" for one the caller handled), and the call before it.      *)
Call(op, symbol, date, raised, arg) ==
    [op |-> op, symbol |-> symbol, date |-> date, raised |-> raised,
     arg |-> arg, before |-> last.op]

RaisedName(x) == IF IsRaised(x) THEN x.name ELSE ""

(* latest after a record for a held symbol was passed to the table: its    *)
(* close, and the close of the record before it for the same pair          *)
Record(lat, stks, timestamp) ==
    LET k == <<timestamp.date, timestamp.symbol>>
    IN  IF timestamp.symbol \in DOMAIN stks
        THEN DictSet(lat, k, [close |-> timestamp.close_price,
                              prev  |-> IF k \in DOMAIN lat THEN lat[k].close ELSE None])
        ELSE lat

(* expected after a portfolio row: a row whose share count is a           *)
(* non-negative number sets the holding of its symbol, any other is skipped *)
Holding(exp, row) ==
    LET n == float(row.NO_SHARES)
    IN  IF IsRaised(n) THEN exp
        ELSE IF n.val < 0 THEN exp
        ELSE DictSet(exp, row.SYMBOL, n)

---------------------------------------------------------------------------
(* The Investor class used on its own: any interleaving of its methods *)

Init ==
    /\ stocks = EmptyDict
    /\ stock_volumes = EmptyDict
    /\ symbol_dict = EmptyDict
    /\ stock_timestamps = EmptyDict
    /\ graph = EmptyDict
    /\ pc = "api"
    /\ stock_obj = Unbound
    /\ db_rows = 0
    /\ csv_read = 0
    /\ expected = EmptyDict
    /\ latest = EmptyDict
    /\ last = [op |-> "init", symbol |-> "", date |-> 0, raised |-> "",
               arg |-> None, before |-> ""]
    /\ nops = 0

AddStock ==
    /\ pc = "api" /\ nops < MaxOps
    /\ \E symbol \in StockSymbols, text \in ApiShareTexts :
          LET obj == Stock_init(symbol, text)
          IN  /\ stocks' = IF IsRaised(obj) THEN stocks ELSE add_stock(stocks, obj)
              /\ last' = Call("add_stock", symbol, 0, RaisedName(obj), None)
    /\ nops' = nops + 1
    /\ UNCHANGED <<stock_volumes, symbol_dict, stock_timestamps, graph, pc,
                   stock_obj, db_rows, csv_read, expected, latest>>

SetStockMetadata ==
    /\ pc = "api" /\ nops < MaxOps
    /\ LET r == set_stock_metadata(stocks, stock_volumes, symbol_dict)
       IN  /\ stock_volumes' = r.stock_volumes
           /\ symbol_dict' = r.symbol_dict
    /\ last' = Call("set_stock_metadata", "", 0, "", None)
    /\ nops' = nops + 1
    /\ UNCHANGED <<stocks, stock_timestamps, graph, pc, stock_obj, db_rows,
                   csv_read, expected, latest>>

AddStockTimestamp ==
    /\ pc = "api" /\ nops < MaxOps
    /\ \E symbol \in PriceSymbols, date \in ApiDateTexts, close \in ApiCloseTexts :
          LET ts == Stock_Timestamp_init(symbol, date, close)
          IN  IF IsRaised(ts)
              THEN /\ last' = Call("add_stock_timestamp", symbol, 0, ts.name, None)
                   /\ UNCHANGED <<stock_timestamps, latest>>
              ELSE LET r == add_stock_timestamp(symbol_dict, stock_volumes,
                                                stock_timestamps, ts)
                   IN  /\ stock_timestamps' = r.table
                       /\ latest' = IF r.raised = "" THEN Record(latest, stocks, ts)
                                     ELSE latest
                       /\ last' = Call("add_stock_timestamp", symbol, ts.date,
                                       r.raised, None)
    /\ nops' = nops + 1
    /\ UNCHANGED <<stocks, stock_volumes, symbol_dict, graph, pc, stock_obj,
                   db_rows, csv_read, expected>>

PrepForGraph_Consuming ==
    /\ pc = "api" /\ nops < MaxOps
    /\ LET r == prep_for_graph(symbol_dict, stock_timestamps)
       IN  /\ graph' = IF r.raised = "" THEN r.graph_dict ELSE graph
           /\ last' = Call("prep_for_graph", "", 0, r.raised, None)
    /\ stock_timestamps' = EmptyDict
    /\ nops' = nops + 1
    /\ UNCHANGED <<stocks, stock_volumes, symbol_dict, pc,
                   stock_obj, db_rows, csv_read, expected, latest>>

PrepForGraph ==
    /\ pc = "api" /\ nops < MaxOps
    /\ LET r == prep_for_graph(symbol_dict, stock_timestamps)
       IN  /\ graph' = IF r.raised = "" THEN r.graph_dict ELSE graph
           /\ last' = Call("prep_for_graph", "", 0, r.raised, None)
    /\ nops' = nops + 1
    /\ UNCHANGED <<stocks, stock_volumes, symbol_dict, stock_timestamps, pc,
                   stock_obj, db_rows, csv_read, expected, latest>>

Next == AddStock \/ SetStockMetadata \/ AddStockTimestamp \/ PrepForGraph

Spec == Init /\ [][Next]_vars

---------------------------------------------------------------------------
(* The main script, from the creation of the Investor to the saved chart *)

CsvRows == [SYMBOL : StockSymbols, NO_SHARES : ShareTexts]

JsonRows == [Symbol : PriceSymbols, Date : DateTexts, Close : CloseTexts]

(* The INSERT statement is built by interpolating the row into the SQL     *)
(* text, Close unquoted: a Close that is no numeric literal is read as a   *)
(* column name and the statement fails.                                    *)
insert_row(row) ==
    IF IsRaised(float(row.Close)) THEN Raised("OperationalError") ELSE None

(* plt.plot(x, value) refuses an x and a value of different lengths *)
plot_lines(data) ==
    LET x == data["dates"]
    IN  IF \E key \in (DOMAIN data) \ {"dates"} : Len(data[key]) # Len(x)
        THEN Raised("ValueError")
        ELSE None

MainInit ==
    /\ stocks = EmptyDict
    /\ stock_volumes = EmptyDict
    /\ symbol_dict = EmptyDict
    /\ stock_timestamps = EmptyDict
    /\ graph = EmptyDict
    /\ pc = "read_csv"
    /\ stock_obj = Unbound
    /\ db_rows = 0
    /\ csv_read = 0
    /\ expected = EmptyDict
    /\ latest = EmptyDict
    /\ last = [op |-> "init", symbol |-> "", date |-> 0, raised |-> "",
               arg |-> None, before |-> ""]
    /\ nops = 0

(* One pass of the loop over the portfolio rows *)
Main_CsvRow ==
    /\ pc = "read_csv" /\ csv_read < MaxCsvRows
    /\ \E row \in CsvRows :
          LET made == Stock_init(row.SYMBOL, row.NO_SHARES)
              obj  == IF IsRaised(made) THEN stock_obj ELSE made
          IN  /\ csv_read' = csv_read + 1
              /\ expected' = Holding(expected, row)
              /\ stock_obj' = obj
              /\ IF obj.type = "unbound"
                 THEN /\ pc' = "failed"
                      /\ last' = Call("csv_row", row.SYMBOL, 0, "NameError", row)
                      /\ UNCHANGED stocks
                 ELSE /\ stocks' = add_stock(stocks, obj)
                      /\ last' = Call("csv_row", row.SYMBOL, 0,
                                      IF IsRaised(made) THEN "caught" ELSE "", row)
                      /\ UNCHANGED pc
    /\ UNCHANGED <<stock_volumes, symbol_dict, stock_timestamps, graph, db_rows,
                   latest, nops>>

(* End of the portfolio file: set_stock_metadata, then the price file is loaded *)
Main_SetMetadata ==
    /\ pc = "read_csv"
    /\ LET r == set_stock_metadata(stocks, stock_volumes, symbol_dict)
       IN  /\ stock_volumes' = r.stock_volumes
           /\ symbol_dict' = r.symbol_dict
    /\ pc' = "read_json"
    /\ last' = Call("set_stock_metadata", "", 0, "", None)
    /\ UNCHANGED <<stocks, stock_timestamps, graph, stock_obj, db_rows,
                   csv_read, expected, latest, nops>>

Main_JsonRow_Skip ==
    /\ pc = "read_json" /\ db_rows < MaxJsonRows
    /\ \E row \in JsonRows :
          LET ts == Stock_Timestamp_init(row.Symbol, row.Date, row.Close)
          IN  IF IsRaised(ts)
              THEN /\ db_rows' = db_rows + 1
                   /\ last' = Call("json_row", row.Symbol, 0, "caught", row)
                   /\ UNCHANGED <<stock_timestamps, latest, pc>>
              ELSE LET r == add_stock_timestamp(symbol_dict, stock_volumes,
                                                stock_timestamps, ts)
                   IN  /\ db_rows' = db_rows + 1
                       /\ stock_timestamps' = r.table
                       /\ latest' = IF r.raised = "" THEN Record(latest, stocks, ts)
                                     ELSE latest
                       /\ pc' = IF r.raised = "" THEN pc ELSE "failed"
                       /\ last' = Call("json_row", row.Symbol, ts.date, r.raised, row)
    /\ UNCHANGED <<stocks, stock_volumes, symbol_dict, graph, stock_obj,
                   csv_read, expected, nops>>

(* One pass of the loop over the price rows *)
Main_JsonRow ==
    /\ pc = "read_json" /\ db_rows < MaxJsonRows
    /\ \E row \in JsonRows :
          LET ins == insert_row(row)
              ts  == Stock_Timestamp_init(row.Symbol, row.Date, row.Close)
          IN  IF IsRaised(ins)
              THEN /\ pc' = "failed"
                   /\ last' = Call("json_row", row.Symbol, 0, ins.name, row)
                   /\ UNCHANGED <<stock_timestamps, latest, db_rows>>
              ELSE IF IsRaised(ts)
              THEN /\ db_rows' = db_rows + 1
                   /\ pc' = "failed"
                   /\ last' = Call("json_row", row.Symbol, 0, ts.name, row)
                   /\ UNCHANGED <<stock_timestamps, latest>>
              ELSE LET r == add_stock_timestamp(symbol_dict, stock_volumes,
                                                stock_timestamps, ts)
                   IN  /\ db_rows' = db_rows + 1
                       /\ stock_timestamps' = r.table
                       /\ latest' = IF r.raised = "" THEN Record(latest, stocks, ts)
                                     ELSE latest
                       /\ pc' = IF r.raised = "" THEN pc ELSE "failed"
                       /\ last' = Call("json_row", row.Symbol, ts.date, r.raised, row)
    /\ UNCHANGED <<stocks, stock_volumes, symbol_dict, graph, stock_obj,
                   csv_read, expected, nops>>

(* End of the price rows: data = investor.prep_for_graph() *)
Main_PrepForGraph ==
    /\ pc = "read_json"
    /\ LET r == prep_for_graph(symbol_dict, stock_timestamps)
       IN  /\ graph' = IF r.raised = "" THEN r.graph_dict ELSE graph
           /\ pc' = IF r.raised = "" THEN "plot" ELSE "failed"
           /\ last' = Call("prep_for_graph", "", 0, r.raised, None)
    /\ UNCHANGED <<stocks, stock_volumes, symbol_dict, stock_timestamps,
                   stock_obj, db_rows, csv_read, expected, latest, nops>>

(* One line per series against the date axis, then the chart is saved *)
Main_Plot ==
    /\ pc = "plot"
    /\ LET r == plot_lines(graph)
       IN  /\ pc' = IF IsRaised(r) THEN "failed" ELSE "done"
           /\ last' = Call("plot", "", 0, RaisedName(r), None)
    /\ UNCHANGED <<stocks, stock_volumes, symbol_dict, stock_timestamps, graph,
                   stock_obj, db_rows, csv_read, expected, latest, nops>>

MainNext ==
    Main_CsvRow \/ Main_SetMetadata \/ Main_JsonRow \/ Main_PrepForGraph \/ Main_Plot

SpecMain == MainInit /\ [][MainNext]_vars

---------------------------------------------------------------------------
(* Properties *)

Shares(s) == stocks[s].number_of_shares

(* C1: in the main script (portfolio loaded, set_stock_metadata run), for   *)
(* every date d and held symbol s with at least one ingested record,        *)
(* stock_timestamps[d][s] is shares(s) times the close of the most recently *)
(* ingested record for (s, d): a later record overwrites, it does not add.  *)
C1_ValueIsSharesTimesLatestClose ==
    \A k \in DOMAIN latest :
        /\ k[1] \in DOMAIN stock_timestamps
        /\ k[2] \in DOMAIN stock_timestamps[k[1]]
        /\ stock_timestamps[k[1]][k[2]] = Float(Shares(k[2]).val * latest[k].close.val)

(* A pair ingested twice with different closes, for a holding of 2 shares *)
C1_Witness ==
    \E k \in DOMAIN latest :
        /\ latest[k].prev.type = "float"
        /\ latest[k].prev # latest[k].close
        /\ Shares(k[2]) = Float(2)
        /\ stock_timestamps[k[1]][k[2]] = Float(2 * latest[k].close.val)

IsIngest(l) == l.op = "add_stock_timestamp"

(* C2: a record whose symbol is not a key of symbol_dict leaves the         *)
(* valuation table unchanged, whatever the table holds.                     *)
C2_UnownedLeavesTableUnchanged ==
    [][(nops' = nops + 1 /\ IsIngest(last') /\ last'.symbol \notin DOMAIN symbol_dict)
          => stock_timestamps' = stock_timestamps]_vars

(* A well-formed record for an unowned symbol and a new date has been       *)
(* ingested into a table that holds another date                            *)
C2_Witness ==
    /\ IsIngest(last) /\ last.raised = "" /\ last.date # 0
    /\ last.symbol \notin DOMAIN symbol_dict
    /\ stock_timestamps # EmptyDict
    /\ last.date \notin DOMAIN stock_timestamps

(* C10: every key of symbol_dict has a share count in stock_volumes, so     *)
(* calculate_value never fails on a missing symbol, in any interleaving of  *)
(* add_stock, set_stock_metadata and add_stock_timestamp.                   *)
C10_FilterImpliesVolume ==
    /\ DOMAIN symbol_dict \subseteq DOMAIN stock_volumes
    /\ last.raised # "KeyError"

(* A record for an owned symbol was valued after a stock was added behind   *)
(* the back of set_stock_metadata                                           *)
C10_Witness ==
    /\ IsIngest(last) /\ last.raised = "" /\ last.date # 0
    /\ last.symbol \in DOMAIN symbol_dict
    /\ DOMAIN stocks # DOMAIN symbol_dict
    /\ stock_timestamps[last.date][last.symbol].type = "float"

(* C3: date-axis alignment: whatever the symbols are named, the result of  *)
(* prep_for_graph has as many dates as every owned symbol has values.       *)
C3_DateAxisAlignment ==
    "dates" \in DOMAIN graph =>
        \A s \in DOMAIN symbol_dict : Len(graph["dates"]) = Len(graph[s])

RowsFull ==
    \A d \in DOMAIN stock_timestamps :
        DOMAIN stock_timestamps[d] = DOMAIN symbol_dict

(* C4 as stated: in every reachable state, after any interleaving of        *)
(* add_stock, set_stock_metadata and add_stock_timestamp, every row has an  *)
(* entry for exactly the symbols of the owned symbol set.                   *)
C4_RowsHaveAllOwnedSymbols == RowsFull

(* C4 as amended: a row is created with an entry for exactly the symbols    *)
(* owned at that moment, None wherever it was not written; afterwards its   *)
(* key set changes only by gaining the symbol of a record written into it;  *)
(* its keys are always owned symbols, and every row covers the whole owned  *)
(* set as long as set_stock_metadata adds no symbol once a row exists.      *)
C4_RowsSnapshotOwnedSymbols ==
    /\ [](\A d \in DOMAIN stock_timestamps :
            /\ DOMAIN stock_timestamps[d] \subseteq DOMAIN symbol_dict
            /\ \A s \in DOMAIN stock_timestamps[d] :
                  stock_timestamps[d][s].type \in {"NoneType", "float"})
    /\ [][\A d \in DOMAIN stock_timestamps' :
            IF d \in DOMAIN stock_timestamps
            THEN \/ DOMAIN stock_timestamps'[d] = DOMAIN stock_timestamps[d]
                 \/ /\ IsIngest(last') /\ last'.date = d
                    /\ DOMAIN stock_timestamps'[d]
                          = DOMAIN stock_timestamps[d] \cup {last'.symbol}
            ELSE /\ DOMAIN stock_timestamps'[d] = DOMAIN symbol_dict'
                 /\ \A s \in DOMAIN stock_timestamps'[d] :
                       s # last'.symbol => stock_timestamps'[d][s] = None]_vars
    /\ [][(RowsFull /\ DOMAIN symbol_dict' = DOMAIN symbol_dict) => RowsFull']_vars

(* Two rows after the owned set grew: one created before, which lacks the   *)
(* new symbol, and one created after, with both symbols and one entry None  *)
C4_Witness ==
    \E d, e \in DOMAIN stock_timestamps :
        /\ Cardinality(DOMAIN symbol_dict) = 2
        /\ DOMAIN stock_timestamps[d] # DOMAIN symbol_dict
        /\ DOMAIN stock_timestamps[e] = DOMAIN symbol_dict
        /\ \E s \in DOMAIN symbol_dict : stock_timestamps[e][s] = None
        /\ \E s \in DOMAIN symbol_dict : stock_timestamps[e][s].type = "float"

(* C5: prep_for_graph returns the table's date keys in strictly increasing  *)
(* order, and series[s][i] = table[dates[i]][s] for every owned symbol s,   *)
(* None entries kept; an empty table gives empty sequences.                 *)
C5_ProjectionIsSortedAndAligned ==
    "dates" \in DOMAIN graph =>
        LET dates == graph["dates"]
        IN  /\ Len(dates) = Cardinality(DOMAIN stock_timestamps)
            /\ \A i \in 1..Len(dates) :
                  /\ dates[i].type = "datetime"
                  /\ dates[i].ord \in DOMAIN stock_timestamps
            /\ \A i, j \in 1..Len(dates) : i < j => dates[i].ord < dates[j].ord
            /\ \A s \in DOMAIN symbol_dict :
                  /\ s \in DOMAIN graph
                  /\ Len(graph[s]) = Len(dates)
                  /\ \A i \in 1..Len(dates) :
                        graph[s][i] = stock_timestamps[dates[i].ord][s]

Holdings == [s \in DOMAIN stocks |-> stocks[s].number_of_shares]

(* C6: a portfolio row whose share count is no non-negative number is       *)
(* skipped: the load is not aborted and the holdings are those of the       *)
(* other rows, wherever the row stands in the file.                         *)
C6_MalformedRowSkipped ==
    /\ ~ (pc = "failed" /\ last.op = "csv_row")
    /\ Holdings = expected

Unparseable(row) == IsRaised(strptime(row.Date)) \/ IsRaised(float(row.Close))

C8_KeyCreatedByAnyRecord ==
    /\ [][DOMAIN stock_timestamps \subseteq DOMAIN stock_timestamps']_vars
    /\ [][(nops' = nops + 1 /\ IsIngest(last') /\ last'.date # 0)
            => last'.date \in DOMAIN stock_timestamps']_vars

(* C8 as amended: the table only grows; a date key is created by the first  *)
(* record for that date whose symbol is owned (a record for an unowned      *)
(* symbol creates none), by nothing else, and is never removed.             *)
C8_KeysGrowByOwnedRecords ==
    /\ [][DOMAIN stock_timestamps \subseteq DOMAIN stock_timestamps']_vars
    /\ [][(nops' = nops + 1 /\ IsIngest(last') /\ last'.date # 0)
            => (last'.date \in DOMAIN stock_timestamps'
                   <=> (last'.date \in DOMAIN stock_timestamps
                          \/ last'.symbol \in DOMAIN symbol_dict))]_vars
    /\ [][DOMAIN stock_timestamps' # DOMAIN stock_timestamps
            => (IsIngest(last')
                /\ DOMAIN stock_timestamps' = DOMAIN stock_timestamps \cup {last'.date})]_vars

(* Two date keys are still there after more ingests and a projection *)
C8_Witness ==
    /\ Cardinality(DOMAIN stock_timestamps) = 2
    /\ last.op = "prep_for_graph" /\ last.before = "add_stock_timestamp"
    /\ Len(graph["dates"]) >= 2

====
